---- MODULE Spec2Model ----
(***************************************************************************)
(* Model of the LinkedIn assistant (backend/services/linkedin_assistant.py *)
(* with backend/utils/encryption.py and the endpoints of backend/main.py   *)
(* that call it).                                                          *)
(*                                                                         *)
(* Text (labels, URLs, answers) is a sequence of atoms: an atom is a group *)
(* of characters that the code never looks inside ("salary", " ", "ship"). *)
(* Python's `k in s` is then "k is a contiguous subsequence of s", lower() *)
(* maps every atom to its lower-case atom, and startswith is a test on the *)
(* first atom.                                                             *)
(*                                                                         *)
(* The attempt coroutine is cut at its suspension points (awaits that      *)
(* reach the browser or sleep); the code between two suspension points is  *)
(* one atomic step, as it is on a single asyncio event loop.               *)
(***************************************************************************)
EXTENDS Integers, Sequences, FiniteSets, TLC

VARIABLES
    _browser_context,     \* 0 = None, else the id of the context the global names
    _playwright,          \* 0 = None, else the id of the driver the global names
    _stop_requested,
    _actions_this_minute,
    window_age,           \* now - _last_action_timestamp, saturated at WINDOW
    _applies_today,
    _last_reset_date,     \* 0 = "", else a day number
    today,                \* the day time.strftime("%Y-%m-%d") names
    live_contexts,        \* ids of the browser contexts opened and not closed
    live_drivers,         \* ids of the playwright drivers started and not stopped
    pages,                \* open tabs of the context the global names
    launch,               \* per launch coroutine: its position and its driver
    spc,                  \* position of the stop coroutine
    ENCRYPTION_KEY,       \* the environment variable: "valid", "invalid", "missing"
    probe,                \* the last direct call of a helper: its inputs and result
    question_bank,        \* rows of linkedin_question_bank of the user, in row order
    applications,         \* rows of the applications table: job -> number of rows
    job_status,           \* jobs.status of each job
    attempt,              \* per invocation slot: the coroutine's position and locals
    budget                \* invocations the callers may still make

vars == << _browser_context, _playwright, _stop_requested, _actions_this_minute,
           window_age, _applies_today, _last_reset_date, today, live_contexts,
           live_drivers, pages, launch, spc, ENCRYPTION_KEY, probe, question_bank,
           applications, job_status, attempt, budget >>

sessionVars == << _browser_context, _playwright, live_contexts, live_drivers,
                 launch, spc >>
rateVars == << _actions_this_minute, window_age, _applies_today, _last_reset_date >>
dbVars == << question_bank, applications, job_status >>
envVars == << ENCRYPTION_KEY, probe >>

(***************************************************************************)
(* Bounds of the model                                                     *)
(***************************************************************************)
MaxInvocations == 1     \* attempt invocations explored by Spec
MaxDays == 2            \* calendar days explored
MaxDailyRuns == 52      \* attempt invocations explored by SpecDaily
MaxDayRuns == 3         \* attempt invocations explored by SpecDays
MaxFields == 2          \* fields of a form handed to _fill_modal_fields
MaxEntries == 2         \* entries of a snapshot handed to _learn_new_answers
MaxLabels == 3          \* labels handed to the resolver in one call of SpecResolve
RateSlots == 3          \* clock ticks per throttle window, in SpecRate
MaxWaitRuns == 2        \* invocations of the caller of SpecWait
MaxStopRuns == 2        \* invocations of the callers of SpecStop
MaxDrivers == 3         \* playwright drivers that can be alive or referred to at once
MaxHumanWaits == 1      \* validation-error episodes the site shows per attempt
MaxStepRuns == 2        \* invocations of the caller of SpecSteps
MaxHumanRuns == 1       \* invocations of the caller of SpecHuman
MaxBankLabels == 2      \* labels handed to the resolver in one call of SpecBank
MaxJobs == 2            \* entries of work_experience, and labels per call, in SpecExp

(***************************************************************************)
(* Program constants                                                       *)
(***************************************************************************)
MAX_DAILY == 50
MAX_PER_MINUTE == 12
WINDOW == 60
max_steps == 10
HUMAN_WAIT == 60
POLL_SLEEP == 2
FUZZY_THRESHOLD == 80
CURRENT_YEAR == 2026

Attempts == {1, 2}

\* the launch coroutines that may be in flight together
Launchers == {1, 2}

\* ids of the drivers async_playwright().start() can give
Drivers == 1..MaxDrivers

(***************************************************************************)
(* Text                                                                    *)
(***************************************************************************)
Lower(a) ==
    CASE a = "Expected" -> "expected"
      [] a = "Salary" -> "salary"
      [] a = "Visa" -> "visa"
      [] a = "First" -> "first"
      [] a = "Last" -> "last"
      [] a = "Name" -> "name"
      [] a = "Phone" -> "phone"
      [] a = "City" -> "city"
      [] a = "Years" -> "years"
      [] a = "I" -> "i"
      [] a = "Yes" -> "yes"
      [] a = "No" -> "no"
      [] OTHER -> a

lower(s) == [i \in 1..Len(s) |-> Lower(s[i])]

\* Python's `k in s`
Contains(s, k) ==
    \E i \in 0..(Len(s) - Len(k)) : SubSeq(s, i + 1, i + Len(k)) = k

\* Python's s.strip(): leading and trailing blanks removed
RECURSIVE lstrip(_)
lstrip(s) == IF s # << >> /\ Head(s) = " " THEN lstrip(Tail(s)) ELSE s

RECURSIVE rstrip(_)
rstrip(s) ==
    IF s # << >> /\ s[Len(s)] = " " THEN rstrip(SubSeq(s, 1, Len(s) - 1)) ELSE s

strip(s) == rstrip(lstrip(s))

SENSITIVE_KEYWORDS ==
    << <<"salary">>, <<"compensation">>, <<"visa">>,
       <<"work", " ", "authorization">>, <<"relocation">>,
       <<"notice", " ", "period">>, <<"citizen", "ship">> >>

\* any(kw in text for kw in SENSITIVE_KEYWORDS)
AnySensitiveKeyword(text) ==
    \E i \in 1..Len(SENSITIVE_KEYWORDS) : Contains(text, SENSITIVE_KEYWORDS[i])

(***************************************************************************)
(* utils/encryption.py.  A Fernet token is the marker atom "gAAAAA", the   *)
(* atom "~" and the plaintext; text typed by a person may start with the   *)
(* marker too, and is then no token.                                       *)
(***************************************************************************)
MARKER == "gAAAAA"

startswith_marker(value) == value # << >> /\ value[1] = MARKER

IsToken(value) == Len(value) >= 2 /\ value[1] = MARKER /\ value[2] = "~"

\* get_cipher_suite() returns None without a usable key
get_cipher_suite(key) == IF key = "valid" THEN "fernet" ELSE "None"

\* encrypt_value never raises: every failure falls back to the plaintext
encrypt_value(value, key) ==
    IF value = << >> THEN << >>
    ELSE IF get_cipher_suite(key) = "None" THEN value
    ELSE IF startswith_marker(value) THEN value
    ELSE <<MARKER, "~">> \o value

decrypt_value(value, key) ==
    IF value = << >> THEN << >>
    ELSE IF get_cipher_suite(key) = "None" THEN value
    ELSE IF IsToken(value) THEN SubSeq(value, 3, Len(value))
    ELSE value

(***************************************************************************)
(* The answer resolver: _map_label_to_value, _calc_exp and find_answer     *)
(***************************************************************************)
None == <<"<None>">>

\* Python's `not ans` for an optional string
Falsy(ans) == ans = None \/ ans = << >>

\* s.split(' ')[0]
RECURSIVE FirstToken(_)
FirstToken(s) ==
    IF s = << >> \/ Head(s) = " " THEN << >> ELSE <<Head(s)>> \o FirstToken(Tail(s))

\* s.split(' ')[-1]
RECURSIVE LastToken(_)
LastToken(s) ==
    IF s = << >> \/ s[Len(s)] = " " THEN << >>
    ELSE LastToken(SubSeq(s, 1, Len(s) - 1)) \o <<s[Len(s)]>>

\* lines 834-835: parts[-1] if len(parts) > 1 else ""
LastPart_whole(full_name) == full_name

LastPart(full_name) ==
    IF Contains(full_name, <<" ">>) THEN LastToken(full_name) ELSE << >>

_map_label_to_value(label, profile) ==
    LET l == lower(label) IN
    IF Contains(l, <<"phone">>) \/ Contains(l, <<"mobile">>) THEN profile.phone_number
    ELSE IF Contains(l, <<"email">>) THEN profile.email
    ELSE IF Contains(l, <<"first", " ", "name">>) THEN FirstToken(profile.full_name)
    ELSE IF Contains(l, <<"last", " ", "name">>) THEN LastPart(profile.full_name)
    ELSE None

Digits == <<"0", "1", "2", "3", "4", "5", "6", "7", "8", "9">>

\* str(n) for n >= 0
RECURSIVE Str(_)
Str(n) == IF n < 10 THEN <<Digits[n + 1]>> ELSE Str(n \div 10) \o <<Digits[(n % 10) + 1]>>

Max(a, b) == IF a >= b THEN a ELSE b
Min(a, b) == IF a <= b THEN a ELSE b

\* work_experience is the list of the entries' start years (0: no usable
\* start_date); skills is the number of skills
_calc_exp(profile) ==
    LET work_exp == profile.work_experience
        years == IF work_exp # << >> /\ work_exp[Len(work_exp)] # 0
                 THEN Max(1, CURRENT_YEAR - work_exp[Len(work_exp)])
                 ELSE 0
    IN IF years = 0 THEN Str(Max(1, profile.skills \div 2)) ELSE Str(years)

\* thefuzz's default processor: lower-case, punctuation dropped
full_process(s) == lower(SelectSeq(s, LAMBDA a : a \notin {"?", ".", ","}))

\* longest common subsequence of two atom sequences
RECURSIVE Lcs(_, _)
Lcs(s, t) ==
    IF s = << >> \/ t = << >> THEN 0
    ELSE IF Head(s) = Head(t) THEN 1 + Lcs(Tail(s), Tail(t))
    ELSE Max(Lcs(Tail(s), t), Lcs(s, Tail(t)))

\* the scorer of process.extractOne, 0..100: 2*M/T of the processed texts
Score(query, choice) ==
    LET q == full_process(query)
        c == full_process(choice)
    IN IF q = << >> \/ c = << >> THEN 0
       ELSE (200 * Lcs(q, c)) \div (Len(q) + Len(c))

\* process.extractOne(label_text, qb_questions): the first choice of best score
extractOne_last(label, qb_questions) ==
    LET best == CHOOSE i \in 1..Len(qb_questions) :
                    /\ \A j \in 1..Len(qb_questions) :
                          Score(label, qb_questions[j]) <= Score(label, qb_questions[i])
                    /\ \A j \in (i + 1)..Len(qb_questions) :
                          Score(label, qb_questions[j]) < Score(label, qb_questions[i])
    IN [best_match |-> qb_questions[best], score |-> Score(label, qb_questions[best])]

extractOne(label, qb_questions) ==
    LET best == CHOOSE i \in 1..Len(qb_questions) :
                    /\ \A j \in 1..Len(qb_questions) :
                          Score(label, qb_questions[j]) <= Score(label, qb_questions[i])
                    /\ \A j \in 1..(i - 1) :
                          Score(label, qb_questions[j]) < Score(label, qb_questions[i])
    IN [best_match |-> qb_questions[best], score |-> Score(label, qb_questions[best])]

\* the threshold test of find_answer
AcceptScore(score) == score > FUZZY_THRESHOLD

\* the sensitive veto of find_answer
Vetoed(label_text) == AnySensitiveKeyword(lower(label_text))

\* step 3 of find_answer: the fuzzy look-up in the question bank
FuzzyLookup(ans, label_text, qb_data) ==
    LET qb_questions == [i \in 1..Len(qb_data) |-> qb_data[i].question_text] IN
    IF Falsy(ans) /\ qb_questions # << >> THEN
        LET m == extractOne(label_text, qb_questions) IN
        IF AcceptScore(m.score) THEN
            (LET r == CHOOSE i \in 1..Len(qb_data) :
                        /\ qb_data[i].question_text = m.best_match
                        /\ \A j \in 1..(i - 1) :
                              qb_data[j].question_text # m.best_match
             IN qb_data[r].answer_text)
        ELSE ans
    ELSE ans

\* lines 710 and 712-715: the score of the best match, and the answer of
\* the first row that holds the best-matching question
BestScore(label_text, qb_data) ==
    extractOne(label_text,
               [i \in 1..Len(qb_data) |-> qb_data[i].question_text]).score

BestMatch(label_text, qb_data) ==
    extractOne(label_text,
               [i \in 1..Len(qb_data) |-> qb_data[i].question_text]).best_match

BestAnswer(label_text, qb_data) ==
    qb_data[CHOOSE i \in 1..Len(qb_data) :
                /\ qb_data[i].question_text = BestMatch(label_text, qb_data)
                /\ \A j \in 1..(i - 1) :
                      qb_data[j].question_text # BestMatch(label_text, qb_data)
           ].answer_text

\* step 4 of find_answer: the years-of-experience fallback
ExperienceFallback(ans, label_text, profile) ==
    IF Falsy(ans) /\ Contains(lower(label_text), <<"years">>)
                  /\ Contains(lower(label_text), <<"experience">>)
    THEN _calc_exp(profile) ELSE ans

\* the end of find_answer: a marker-prefixed answer is decrypted
DecryptAnswer(ans, key) ==
    IF ~Falsy(ans) /\ startswith_marker(ans) THEN
        (LET decrypted == decrypt_value(ans, key) IN
         IF decrypted # << >> THEN decrypted ELSE ans)
    ELSE ans

\* find_answer(label_text): the value to fill (None: leave blank) and
\* whether the label was appended to `skipped`
find_answer(label_text, profile, qb_data, key) ==
    IF label_text = << >> THEN [ans |-> None, skipped |-> FALSE]
    ELSE IF Vetoed(label_text) THEN [ans |-> None, skipped |-> TRUE]
    ELSE [ans |-> DecryptAnswer(
                    ExperienceFallback(
                      FuzzyLookup(_map_label_to_value(label_text, profile),
                                  label_text, qb_data),
                      label_text, profile),
                    key),
          skipped |-> FALSE]

(***************************************************************************)
(* The form a step of the modal shows: a sequence of fields                *)
(* [kind, label, val]; kind is "text", "select", "radio" or "checkbox".    *)
(* A snapshot (_extract_form_state) is a dict, kept in insertion order as  *)
(* a sequence of [label, val].                                             *)
(***************************************************************************)
Get(state, label, default) ==
    IF \E i \in 1..Len(state) : state[i].label = label
    THEN state[CHOOSE i \in 1..Len(state) : state[i].label = label].val
    ELSE default

\* state[label] = val
Put(state, label, val) ==
    IF \E i \in 1..Len(state) : state[i].label = label
    THEN [i \in 1..Len(state) |->
            IF state[i].label = label THEN [label |-> label, val |-> val] ELSE state[i]]
    ELSE Append(state, [label |-> label, val |-> val])

RECURSIVE ExtractKind(_, _, _)
ExtractKind(form, kinds, state) ==
    IF form = << >> THEN state
    ELSE LET f == Head(form)
             s == IF f.kind \in kinds /\ f.kind \in {"text", "select"} /\ f.label # << >>
                  THEN Put(state, f.label, f.val)
                  ELSE IF f.kind \in kinds /\ f.kind = "radio" /\ f.val # << >>
                  THEN Put(state, strip(f.label), f.val)
                  ELSE state
         IN ExtractKind(Tail(form), kinds, s)

\* inputs and textareas first, then selects, then the checked radio groups;
\* checkboxes are not part of a snapshot
_extract_form_state(form) ==
    ExtractKind(form, {"radio"},
        ExtractKind(form, {"select"}, ExtractKind(form, {"text"}, << >>)))

\* the lone-checkbox rule of _fill_modal_fields
CheckboxClicked(ltext) ==
    LET l == lower(ltext) IN
    Contains(l, <<"terms">>) \/ Contains(l, <<"agree">>) \/ Contains(l, <<"acknowledge">>)

\* what _fill_modal_fields does with one field, `found` being find_answer
\* of its label: is the label skipped, is the field acted on (fill, select,
\* click), and the field afterwards
FillField(f, found) ==
    IF f.kind = "checkbox" THEN
        IF f.label # << >> /\ CheckboxClicked(f.label)
        THEN [skipped |-> FALSE, filled |-> TRUE,
              field |-> [f EXCEPT !.val = <<"checked">>]]
        ELSE [skipped |-> FALSE, filled |-> FALSE, field |-> f]
    ELSE [skipped |-> found.skipped, filled |-> ~Falsy(found.ans),
          field |-> IF Falsy(found.ans) THEN f ELSE [f EXCEPT !.val = found.ans]]

\* the result of _fill_modal_fields from the per-field results
FillResult(form, res) ==
    [ skipped |-> { form[i].label : i \in { j \in 1..Len(form) : res[j].skipped } },
      filled |-> { form[i].label : i \in { j \in 1..Len(form) : res[j].filled } },
      form |-> [ i \in 1..Len(form) |-> res[i].field ] ]

\* _fill_modal_fields on a form: the labels it appended to `skipped` (as the
\* set it returns), the fields it acted on, and the form afterwards
_fill_modal_fields(form, profile, qb_data, key) ==
    FillResult(form,
               [ i \in 1..Len(form) |->
                   FillField(form[i],
                             find_answer(form[i].label, profile, qb_data, key)) ])

(***************************************************************************)
(* _learn_new_answers                                                      *)
(***************************************************************************)
Category(l) ==
    IF Contains(l, <<"salary">>) \/ Contains(l, <<"pay">>) \/ Contains(l, <<"compensation">>)
    THEN "salary"
    ELSE IF Contains(l, <<"visa">>) \/ Contains(l, <<"sponsor">>) \/ Contains(l, <<"citizen">>)
    THEN "visa"
    ELSE IF Contains(l, <<"experience">>) \/ Contains(l, <<"years">>)
    THEN "experience"
    ELSE "general"

\* supabase upsert of one row that does not raise: the row of the same
\* question of the owner is replaced, a new question is appended (an upsert
\* that raises is `failing` of LearnFrom)
Upsert(bank, row) ==
    IF \E i \in 1..Len(bank) : bank[i].question_text = row.question_text
    THEN [i \in 1..Len(bank) |->
            IF bank[i].question_text = row.question_text THEN row ELSE bank[i]]
    ELSE Append(bank, row)

\* the row _learn_new_answers builds for a changed field
LearnedRow(label, new_val, key) ==
    LET l == lower(label)
        cat == Category(l)
        sensitive == cat \in {"salary", "visa"} \/ AnySensitiveKeyword(l)
    IN [ question_text |-> strip(label),
         answer_text |-> IF sensitive THEN encrypt_value(new_val, key) ELSE new_val,
         category |-> IF sensitive THEN "sensitive" ELSE cat ]

\* line 641: the field holds a value and it is not the value it held before
Changed_any(new_val, old_val) == TRUE

Changed(new_val, old_val) == new_val # << >> /\ new_val # old_val

\* the loop over after.items(); `failing` are the labels whose upsert raises
\* (caught and logged by the code)
RECURSIVE LearnFrom(_, _, _, _, _, _)
LearnFrom(i, before, after, bank, key, failing) ==
    IF i > Len(after) THEN bank
    ELSE LET label == after[i].label
             new_val == after[i].val
             old_val == Get(before, label, << >>)
             bank2 == IF Changed(new_val, old_val) /\ label \notin failing
                      THEN Upsert(bank, LearnedRow(label, new_val, key))
                      ELSE bank
         IN LearnFrom(i + 1, before, after, bank2, key, failing)

\* the loop of lines 640-671 over every label of `after`
_learn_new_answers_both(before, after, bank, key, failing) ==
    LearnFrom(1, before,
              SelectSeq(after, LAMBDA e : \E i \in 1..Len(before) :
                                              before[i].label = e.label),
              bank, key, failing)

_learn_new_answers(before, after, bank, key, failing) ==
    LearnFrom(1, before, after, bank, key, failing)

(***************************************************************************)
(* The data the collaborators supply                                       *)
(***************************************************************************)
\* rows of the jobs table: the URL as scheme, host and the rest
JobIds == {"j_linkedin", "j_external", "j_external_ref", "j_no_url"}

JobUrlParts(j) ==
    CASE j = "j_linkedin" ->
           [scheme |-> <<"https://">>, host |-> <<"www.", "linkedin.com">>,
            rest |-> <<"/jobs/view/1">>]
      [] j = "j_external" ->
           [scheme |-> <<"https://">>, host |-> <<"jobs.", "example.org">>,
            rest |-> <<"/careers/7">>]
      [] j = "j_external_ref" ->
           [scheme |-> <<"https://">>, host |-> <<"jobs.", "example.org">>,
            rest |-> <<"/careers/7?ref=", "linkedin.com">>]
      [] OTHER ->
           [scheme |-> << >>, host |-> << >>, rest |-> << >>]

\* job.get('url'): the URL as the text the code sees
JobUrl(j) == JobUrlParts(j).scheme \o JobUrlParts(j).host \o JobUrlParts(j).rest

\* the host of the URL is linkedin.com or a subdomain of it
HostIsLinkedIn(j) ==
    LET h == JobUrlParts(j).host IN h # << >> /\ h[Len(h)] = "linkedin.com"

\* the domain check of autofill_easy_apply_modal: "linkedin.com" in job_url
DomainGuardPasses(job_url) == Contains(job_url, <<"linkedin.com">>)

PROFILE ==
    [ phone_number |-> <<"+49123">>, email |-> <<"j@d.com">>,
      full_name |-> <<"Jane", " ", "Doe">>, work_experience |-> <<2019, 2015>>,
      skills |-> 6 ]

L_SALARY == <<"Expected", " ", "Salary">>
L_PHONE == <<"Phone">>
L_CITY == <<"City">>
L_ACK == <<"I", " ", "acknowledge", " ", "visa", " ", "terms">>

Field(kind, label, val) == [kind |-> kind, label |-> label, val |-> val]

\* the forms a step of the modal may show
Forms ==
    { << >>,
      << Field("text", L_SALARY, << >>) >>,
      << Field("text", L_PHONE, << >>), Field("text", L_CITY, << >>) >>,
      << Field("text", L_CITY, << >>), Field("checkbox", L_ACK, << >>) >> }

F_CITY == << Field("text", L_CITY, << >>) >>

L_VISA == <<"Will", " ", "you", " ", "need", " ", "visa", " ", "sponsorship", "?">>
L_VISA_BANK == <<"Do", " ", "you", " ", "require", " ", "visa", " ", "sponsorship", "?">>
L_NOTICE == <<"Notice", " ", "Period">>
L_START == <<"Earliest", " ", "start", " ", "date">>
L_START_BANK == <<"Possible", " ", "start", " ", "date">>

Row(question, answer, category) ==
    [question_text |-> question, answer_text |-> answer, category |-> category]

\* sequences over S of length at most n
SeqsUpTo(S, n) == UNION { [1..k -> S] : k \in 0..n }

\* the forms handed to _fill_modal_fields
FillKinds == {"text", "select", "radio", "checkbox"}
FillLabels == {L_SALARY, L_PHONE, L_CITY, L_ACK, L_VISA, L_NOTICE, L_START}
FillForms ==
    SeqsUpTo({ Field(k, l, << >>) : k \in FillKinds, l \in FillLabels }, MaxFields)

\* the question banks _fill_modal_fields may read
FillBanks ==
    { << >>,
      << Row(L_SALARY, <<"90k">>, "general") >>,
      << Row(L_VISA_BANK, <<"No">>, "general"), Row(L_CITY, <<"Berlin">>, "general") >>,
      << Row(L_NOTICE, <<MARKER, "~", "3 months">>, "sensitive") >>,
      << Row(L_START_BANK, <<"May">>, "general") >> }

\* the profiles, labels and banks the resolver is asked with in SpecResolve
L_FIRST == <<"First", " ", "Name">>
L_LAST == <<"Last", " ", "Name">>
L_MOBILE == <<"Mobile", " ", "number">>

Profiles ==
    { [PROFILE EXCEPT !.full_name = n] :
        n \in { <<"Jane", " ", "Doe">>, <<"Jane">>,
                <<"Jane", " ", "van", " ", "Doe">>, << >> } }

ResolveLabels == {L_FIRST, L_LAST, L_PHONE, L_MOBILE}

ResolveBanks == { << >>, << Row(L_LAST, <<"Smith">>, "general") >> }

\* the labels and banks the resolver is asked with in SpecBank: questions
\* that differ in case and punctuation only, a label of punctuation only,
\* the years-of-experience question
L_CITY_Q == <<"city", "?">>
L_PUNCT == <<"?">>
L_YEARS == <<"Years", " ", "of", " ", "experience">>

BankLabels == {L_CITY, L_CITY_Q, L_PUNCT, L_YEARS}

BankBanks ==
    { << Row(L_CITY, <<"Bonn">>, "general") >>,
      << Row(L_CITY_Q, <<"Berlin">>, "general"), Row(L_CITY, <<"Bonn">>, "general") >>,
      << Row(L_CITY, <<"Bonn">>, "general"), Row(L_CITY_Q, <<"Berlin">>, "general") >>,
      << Row(L_START_BANK, <<"May">>, "general"), Row(L_CITY, <<"Bonn">>, "general") >>,
      << Row(L_PUNCT, <<"x">>, "general") >>,
      << Row(L_YEARS, << >>, "experience"), Row(L_CITY, <<MARKER, "~", "Ulm">>, "general") >>,
      << Row(L_YEARS, <<"7">>, "experience") >> }

\* the snapshots handed to _learn_new_answers: dicts, so no label twice
LearnLabels == {L_SALARY, L_CITY, L_NOTICE}
LearnValues == {<< >>, <<"Berlin">>, <<MARKER, "x">>}
Snapshots ==
    { st \in SeqsUpTo([label : LearnLabels, val : LearnValues], MaxEntries) :
        \A i \in 1..Len(st), j \in 1..Len(st) : st[i].label = st[j].label => i = j }

\* the question banks _learn_new_answers may find
LearnBanks ==
    { << >>, << Row(L_CITY, <<"Bonn">>, "general") >> }

\* what a person may type into a blank field
HumanValues == { <<"Berlin">> }

\* the forms a person can make of `form` by typing into blank fields
\* (<< >>: the field is left as it is)
HumanEdits(form) ==
    { g \in [1..Len(form) -> {<< >>} \cup HumanValues] :
        \A i \in 1..Len(form) :
            g[i] # << >> => (form[i].kind = "text" /\ form[i].val = << >>) }

ApplyEdits(form, g) ==
    [i \in 1..Len(form) |->
        IF g[i] = << >> THEN form[i] ELSE [form[i] EXCEPT !.val = g[i]]]

(***************************************************************************)
(* Outcomes and the per-invocation record                                  *)
(***************************************************************************)
Outcome(status, message) == [status |-> status, message |-> message]

NoOutcome == Outcome("none", "none")

\* the invocation raised to its caller instead of returning a dict
Raised(message) == Outcome("raised", message)

\* a direct call of _fill_modal_fields or _learn_new_answers: op is "none",
\* "fill", "filled", "learn" or "learned"
NoProbe ==
    [ op |-> "none", form |-> << >>, before |-> << >>, after |-> << >>,
      skipped |-> {}, filled |-> {}, result |-> << >> ]

\* The locals of one invocation, and what an observer keeps of it: trace
\* (the effects it had), inserted (the application rows it wrote),
\* at_ceiling (the day's ceiling was reached when it was invoked), stop_set
\* (the stop flag was set while it was in flight), qb_read and qb_first (the
\* question bank as the invocation first read it), since_check (the
\* visible browser actions it took since its last rate check), outcome.
IdleAttempt ==
    [ pc |-> "idle", job_id |-> "none", dry_run |-> FALSE, current_step |-> 0,
      waited |-> 0, current_state_before |-> << >>, current_state_after |-> << >>,
      after_bound |-> FALSE, form |-> << >>, skipped_fields |-> {},
      filled |-> {}, inserted |-> 0, waits |-> 0, sleep_left |-> 0,
      resume |-> "none", at_ceiling |-> FALSE, ctx |-> 0, stop_set |-> FALSE,
      qb_read |-> FALSE, qb_first |-> << >>, since_check |-> 0,
      outcome |-> NoOutcome, trace |-> {} ]

\* the externally visible effects an invocation can leave in its trace
BrowserActions ==
    {"new_page", "screenshot", "goto", "click_apply", "fill", "click_next",
     "click_submit"}

InFlight(a) == attempt[a].pc # "idle"

\* line 80 and line 92: every invocation in flight has had the flag set
StopSet ==
    [a \in Attempts |->
        IF InFlight(a) THEN [attempt[a] EXCEPT !.stop_set = TRUE] ELSE attempt[a]]

\* a launch coroutine that is not running
IdleLaunch == [pc |-> "idle", drv |-> 0]

\* the context the invocation found in the global is still open
Alive(a) == attempt[a].ctx \in live_contexts

\* what a browser call answers: x on an open context, else it raises
Answer(a, x, raises) == IF Alive(a) THEN x ELSE raises

(***************************************************************************)
(* Initial state: the module's globals as assigned at import               *)
(***************************************************************************)
InitState(key, runs, bank, call) ==
    /\ _browser_context = 0
    /\ _playwright = 0
    /\ _stop_requested = FALSE
    /\ _actions_this_minute = 0
    /\ window_age = WINDOW
    /\ _applies_today = 0
    /\ _last_reset_date = 0
    /\ today = 1
    /\ live_contexts = {}
    /\ live_drivers = {}
    /\ pages = 0
    /\ launch = [l \in Launchers |-> IdleLaunch]
    /\ spc = "idle"
    /\ ENCRYPTION_KEY = key
    /\ probe = call
    /\ question_bank = bank
    /\ applications = [j \in JobIds |-> 0]
    /\ job_status = [j \in JobIds |-> "scraped"]
    /\ attempt = [a \in Attempts |-> IdleAttempt]
    /\ budget = runs

InitWith(key, runs) == InitState(key, runs, << >>, NoProbe)

(***************************************************************************)
(* The session: launch_linkedin_browser, stop_linkedin_browser,            *)
(* request_stop                                                            *)
(***************************************************************************)
\* a context lives in the driver that opened it and carries its id
Held ==
    live_drivers \cup live_contexts \cup {_browser_context, _playwright}
        \cup {launch[l].drv : l \in Launchers}
        \cup {attempt[a].ctx : a \in Attempts}

\* the id of the next driver async_playwright().start() gives
FreshId == CHOOSE i \in Drivers \ Held : \A k \in Drivers \ Held : i <= k

\* lines 37-48: the running check, then async_playwright().start() is awaited
LaunchBegin(l) ==
    /\ launch[l].pc = "idle"
    /\ IF _browser_context # 0
       THEN UNCHANGED << launch, live_drivers >>
       ELSE /\ Drivers \ Held # {}
            /\ launch' = [launch EXCEPT ![l] = [pc |-> "starting", drv |-> FreshId]]
            /\ live_drivers' = live_drivers \cup {FreshId}
    /\ UNCHANGED << _browser_context, _playwright, live_contexts, pages, spc,
                    _stop_requested, rateVars, today, envVars, dbVars,
                    attempt, budget >>

\* lines 48-67: _playwright is assigned; launch_persistent_context is awaited
LaunchContext(l) ==
    /\ launch[l].pc = "starting"
    /\ launch' = [launch EXCEPT ![l].pc = "opening"]
    /\ _playwright' = launch[l].drv
    /\ UNCHANGED << _browser_context, live_contexts, live_drivers, pages, spc,
                    _stop_requested, rateVars, today, envVars, dbVars,
                    attempt, budget >>

\* lines 67-75: launch_persistent_context returns and _browser_context is
\* assigned, the login page is opened in a new tab; or the call raises, which
\* it does when its driver was stopped meanwhile.
\* ok: the browser starts on the profile directory
LaunchPage(l, ok) ==
    /\ launch[l].pc = "opening"
    /\ launch' = [launch EXCEPT ![l] = IdleLaunch]
    /\ IF ok /\ launch[l].drv \in live_drivers
       THEN /\ _browser_context' = launch[l].drv
            /\ live_contexts' = live_contexts \cup {launch[l].drv}
            /\ pages' = 1
       ELSE UNCHANGED << _browser_context, live_contexts, pages >>
    /\ UNCHANGED << _playwright, live_drivers, spc, _stop_requested,
                    rateVars, today, envVars, dbVars, attempt, budget >>

\* lines 84-85: _playwright.stop() ends the driver and the browser it runs
StopDriver ==
    /\ live_drivers' = live_drivers \ {_playwright}
    /\ live_contexts' = live_contexts \ {_playwright}

\* lines 77-85: the flag is set, then the first await of the coroutine:
\* _browser_context.close(), or _playwright.stop() when no context is named
stop_linkedin_browser ==
    /\ spc = "idle"
    /\ _stop_requested' = TRUE
    /\ IF _browser_context # 0 THEN
            /\ live_contexts' = live_contexts \ {_browser_context}
            /\ pages' = 0
            /\ spc' = "closing"
            /\ UNCHANGED live_drivers
       ELSE IF _playwright # 0 THEN
            /\ StopDriver
            /\ spc' = "stopping"
            /\ UNCHANGED pages
       ELSE UNCHANGED << live_contexts, live_drivers, pages, spc >>
    /\ attempt' = StopSet
    /\ UNCHANGED << _browser_context, _playwright, launch, rateVars, today,
                    envVars, dbVars, budget >>

\* lines 82-85: close() has returned: _browser_context = None, then
\* _playwright.stop() is awaited when a driver is named
StopClosed ==
    /\ spc = "closing"
    /\ _browser_context' = 0
    /\ pages' = 0
    /\ IF _playwright # 0
       THEN StopDriver /\ spc' = "stopping"
       ELSE UNCHANGED << live_contexts, live_drivers >> /\ spc' = "idle"
    /\ UNCHANGED << _playwright, launch, _stop_requested, rateVars, today,
                    envVars, dbVars, attempt, budget >>

\* lines 86-87: stop() has returned: _playwright = None
StopStopped ==
    /\ spc = "stopping"
    /\ _playwright' = 0
    /\ spc' = "idle"
    /\ UNCHANGED << _browser_context, live_contexts, live_drivers, pages,
                    launch, _stop_requested, rateVars, today, envVars, dbVars,
                    attempt, budget >>

request_stop ==
    /\ _stop_requested' = TRUE
    /\ attempt' = StopSet
    /\ UNCHANGED << sessionVars, pages, rateVars, today, envVars, dbVars,
                    budget >>

\* the person at the visible browser closes the tab
ClosePage ==
    /\ _browser_context # 0
    /\ pages > 0
    /\ pages' = pages - 1
    /\ UNCHANGED << sessionVars, _stop_requested, rateVars, today, envVars,
                    dbVars, attempt, budget >>

(***************************************************************************)
(* Time                                                                    *)
(***************************************************************************)
\* d seconds pass
Tick(d) ==
    /\ window_age' = Min(window_age + d, WINDOW)
    /\ attempt' = [a \in Attempts |->
                     [attempt[a] EXCEPT !.sleep_left = Max(0, @ - d)]]
    /\ \/ window_age' # window_age
       \/ attempt' # attempt
    /\ UNCHANGED << sessionVars, pages, _stop_requested, _actions_this_minute,
                    _applies_today, _last_reset_date, today, envVars,
                    dbVars, budget >>

\* midnight passes
DayRollover ==
    /\ today < MaxDays
    /\ today' = today + 1
    /\ UNCHANGED << sessionVars, pages, _stop_requested, rateVars, envVars,
                    dbVars, attempt, budget >>

(***************************************************************************)
(* _rate_limit_check, up to its sleep or its end                           *)
(***************************************************************************)
\* step 1: the daily reset
ResetApplies_kept == _applies_today

ResetApplies == IF today # _last_reset_date THEN 0 ELSE _applies_today

\* step 2: the daily ceiling
DailyLimitReached(applies) == applies >= MAX_DAILY

\* step 3: must the check sleep?
MustThrottle_any_age == _actions_this_minute >= MAX_PER_MINUTE

MustThrottle == window_age < WINDOW /\ _actions_this_minute >= MAX_PER_MINUTE

\* the check's verdict: "raise", "sleep" or "pass"
RateVerdict ==
    IF DailyLimitReached(ResetApplies) THEN "raise"
    ELSE IF MustThrottle THEN "sleep"
    ELSE "pass"

\* the assignments of the check up to its verdict
RateCheckEffect ==
    /\ _applies_today' = ResetApplies
    /\ _last_reset_date' = today
    /\ IF RateVerdict = "pass"
       THEN IF window_age < WINDOW
            THEN /\ _actions_this_minute' = _actions_this_minute + 1
                 /\ window_age' = window_age
            ELSE /\ _actions_this_minute' = 1
                 /\ window_age' = 0
       ELSE UNCHANGED << _actions_this_minute, window_age >>

\* the assignments of the check after its sleep
RateWakeEffect ==
    /\ _actions_this_minute' = 1
    /\ window_age' = 0
    /\ UNCHANGED << _applies_today, _last_reset_date >>

(***************************************************************************)
(* autofill_easy_apply_modal, one action per stretch between suspension    *)
(* points.  What the browser, the site, the person and the database answer *)
(* at a step is the step's input.                                          *)
(***************************************************************************)
\* the invocation returns `out`: its locals die with the frame; what stays is
\* what the caller and the audit trail see
Ret(r, out) ==
    [IdleAttempt EXCEPT !.job_id = r.job_id, !.dry_run = r.dry_run,
                        !.current_step = r.current_step,
                        !.skipped_fields = r.skipped_fields, !.filled = r.filled,
                        !.inserted = r.inserted, !.trace = r.trace,
                        !.at_ceiling = r.at_ceiling,
                        !.since_check = r.since_check, !.outcome = out]

\* the browser actions the site can see: a navigation, a click on Apply,
\* Next or Submit, the filling of a step's fields
VisibleActions == {"goto", "click_apply", "click_next", "click_submit", "fill"}

With(r, tags) ==
    [r EXCEPT !.trace = @ \cup tags,
              !.since_check = IF "rate_check" \in tags THEN 0
                              ELSE @ + Cardinality(tags \cap VisibleActions)]

Set(a, r) == attempt' = [attempt EXCEPT ![a] = r]

Error(message) == Outcome("error", message)

\* line 591: the loop was left; what remains is left to the person
FinishedKnown_error == Error("unrecognized")

FinishedKnown == Outcome("success", "finished_known")

\* the labels the returned dict names to the caller: the message of line 552
\* lists skipped_fields, every other return is a fixed text or str(e)
ReportedSkipped(r) ==
    IF r.outcome = Outcome("success", "dry_run_filled") THEN r.skipped_fields
    ELSE {}

\* lines 396-409: the URL checks that follow the first rate check
AfterEntryCheck(r) ==
    IF JobUrl(r.job_id) = << >> THEN Ret(r, Error("url_not_found"))
    ELSE IF ~DomainGuardPasses(JobUrl(r.job_id)) THEN Ret(r, Error("not_linkedin"))
    ELSE [r EXCEPT !.pc = "nav"]

\* lines 392-409: the try block is entered, the rate check runs, then the
\* URL checks
EntryCheck(a, r) ==
    /\ RateCheckEffect
    /\ Set(a, CASE RateVerdict = "raise" -> Ret(r, Error("daily_limit"))
                [] RateVerdict = "sleep" ->
                     [With(r, {"rate_check"}) EXCEPT !.pc = "rl_sleep",
                         !.resume = "entry", !.sleep_left = WINDOW - window_age]
                [] OTHER -> AfterEntryCheck(With(r, {"rate_check"})))

\* lines 368-393: the invocation up to its first suspension point.
\* fetch: what the two table reads give ("ok", "missing", "raise")
Invoke(a, j, d, fetch) ==
    /\ attempt[a].pc = "idle"
    /\ budget > 0
    /\ budget' = budget - 1
    /\ UNCHANGED << sessionVars, pages, today, envVars, dbVars >>
    /\ LET r == [IdleAttempt EXCEPT
                    !.job_id = j, !.dry_run = d, !.ctx = _browser_context,
                    !.at_ceiling = DailyLimitReached(ResetApplies)] IN
       IF _browser_context = 0 THEN
            /\ Set(a, Ret(r, Error("browser_not_running")))
            /\ UNCHANGED << _stop_requested, rateVars >>
       ELSE /\ _stop_requested' = FALSE
            /\ IF fetch = "raise" THEN
                    /\ Set(a, Ret(r, Raised("fetch")))
                    /\ UNCHANGED rateVars
               ELSE IF fetch = "missing" THEN
                    /\ Set(a, Ret(r, Error("data_missing")))
                    /\ UNCHANGED rateVars
               ELSE IF pages = 0 THEN
                    /\ Set(a, [r EXCEPT !.pc = "new_page"])
                    /\ UNCHANGED rateVars
               ELSE EntryCheck(a, With(r, {"get_page"}))

\* line 385: await _browser_context.new_page(), outside the try block
AcquirePage(a, ok) ==
    /\ attempt[a].pc = "new_page"
    /\ UNCHANGED << sessionVars, _stop_requested, today, envVars, dbVars,
                    budget >>
    /\ IF Answer(a, ok, FALSE) THEN
            /\ pages' = IF attempt[a].ctx = _browser_context THEN pages + 1
                        ELSE pages
            /\ EntryCheck(a, With(attempt[a], {"new_page"}))
       ELSE /\ Set(a, Ret(attempt[a], Raised("new_page")))
            /\ UNCHANGED << pages, rateVars >>

\* lines 116-125: the throttle sleep is over
RateWake(a) ==
    /\ attempt[a].pc = "rl_sleep"
    /\ attempt[a].sleep_left = 0
    /\ RateWakeEffect
    /\ Set(a, IF attempt[a].resume = "entry"
              THEN AfterEntryCheck([attempt[a] EXCEPT !.resume = "none"])
              ELSE [attempt[a] EXCEPT !.pc = "detect", !.resume = "none"])
    /\ UNCHANGED << sessionVars, pages, _stop_requested, today, envVars,
                    dbVars, budget >>

\* lines 411-427: stealth, first screenshot, navigation.
\* result: "already" (page.url = job_url), "ok", "nav_failed", "raise"
Navigate(a, result) ==
    /\ attempt[a].pc = "nav"
    /\ Set(a, CASE Answer(a, result, "raise") = "already" ->
                     [With(attempt[a], {"screenshot"}) EXCEPT !.pc = "find_apply"]
                [] Answer(a, result, "raise") = "ok" ->
                     [With(attempt[a], {"screenshot", "goto"}) EXCEPT
                         !.pc = "find_apply"]
                [] Answer(a, result, "raise") = "nav_failed" ->
                     Ret(With(attempt[a], {"screenshot", "goto"}), Error("nav_failed"))
                [] OTHER -> Ret(attempt[a], Error("exception")))
    /\ UNCHANGED << sessionVars, pages, _stop_requested, rateVars, today,
                    envVars, dbVars, budget >>

\* lines 429-475: the stop check, then the search for the Easy Apply button.
\* found: "button", "modal_open", "nothing", "raise"
FindEasyApply(a, found) ==
    /\ attempt[a].pc = "find_apply"
    /\ Set(a, IF _stop_requested THEN Ret(attempt[a], Outcome("warning", "stopped"))
              ELSE CASE Answer(a, found, "raise") = "button" ->
                          [With(attempt[a], {"screenshot", "click_apply"}) EXCEPT
                              !.pc = "loop", !.current_step = 0]
                     [] Answer(a, found, "raise") = "modal_open" ->
                          [With(attempt[a], {"screenshot"}) EXCEPT
                              !.pc = "loop", !.current_step = 0]
                     [] Answer(a, found, "raise") = "nothing" ->
                          Ret(With(attempt[a], {"screenshot"}), Error("button_not_found"))
                     [] OTHER -> Ret(attempt[a], Error("exception")))
    /\ UNCHANGED << sessionVars, pages, _stop_requested, rateVars, today,
                    envVars, dbVars, budget >>

\* lines 481-484 and 591: the loop test, the stop check and the rate check
LoopTop(a) ==
    /\ attempt[a].pc = "loop"
    /\ UNCHANGED << sessionVars, pages, _stop_requested, today, envVars,
                    dbVars, budget >>
    /\ IF attempt[a].current_step >= max_steps THEN
            /\ Set(a, Ret(attempt[a], FinishedKnown))
            /\ UNCHANGED rateVars
       ELSE LET r == [attempt[a] EXCEPT !.current_step = @ + 1] IN
            IF _stop_requested THEN
                 /\ Set(a, Ret(r, Outcome("warning", "stopped")))
                 /\ UNCHANGED rateVars
            ELSE /\ RateCheckEffect
                 /\ Set(a, CASE RateVerdict = "raise" -> Ret(r, Error("daily_limit"))
                             [] RateVerdict = "sleep" ->
                                  [With(r, {"rate_check"}) EXCEPT !.pc = "rl_sleep",
                                      !.resume = "loop",
                                      !.sleep_left = WINDOW - window_age]
                             [] OTHER ->
                                  [With(r, {"rate_check"}) EXCEPT !.pc = "detect"])

\* line 501: a dry run returns instead of clicking Submit
StopBeforeSubmit_never(dry) == FALSE

StopBeforeSubmit(dry) == dry

\* lines 504-508: in a normal run the submit control is clicked first, the
\* wait for the confirmation and the bookkeeping follow the click
AfterSubmitSeen_unclicked == "confirm"

AfterSubmitSeen == "submit"

\* line 551: a dry run returns after the first step is filled
StopAfterFill(dry) == dry

\* lines 486-502: the step's screenshot, the modal and submit-button queries.
\* seen: "no_modal", "submit", "fields", "raise"
DetectStep(a, seen) ==
    /\ attempt[a].pc = "detect"
    /\ Set(a, CASE Answer(a, seen, "raise") = "no_modal" ->
                     Ret(With(attempt[a], {"screenshot"}),
                         FinishedKnown)
                [] Answer(a, seen, "raise") = "submit" ->
                     IF StopBeforeSubmit(attempt[a].dry_run)
                     THEN Ret(With(attempt[a], {"screenshot"}),
                              Outcome("success", "dry_run_submit"))
                     ELSE [With(attempt[a], {"screenshot"}) EXCEPT
                              !.pc = AfterSubmitSeen]
                [] Answer(a, seen, "raise") = "fields" ->
                     [With(attempt[a], {"screenshot"}) EXCEPT !.pc = "fill"]
                [] OTHER -> Ret(attempt[a], Error("exception")))
    /\ UNCHANGED << sessionVars, pages, _stop_requested, rateVars, today,
                    envVars, dbVars, budget >>

\* the increment of line 505
CountApply_late(applies) == applies

CountApply(applies) == applies + 1

\* lines 504-505: the click on Submit returns (or raises)
SubmitClick(a, ok) ==
    /\ attempt[a].pc = "submit"
    /\ IF Answer(a, ok, FALSE) THEN
            /\ _applies_today' = CountApply(_applies_today)
            /\ Set(a, [With(attempt[a], {"click_submit"}) EXCEPT !.pc = "confirm"])
       ELSE /\ Set(a, Ret(attempt[a], Error("exception")))
            /\ UNCHANGED _applies_today
    /\ UNCHANGED << sessionVars, pages, _stop_requested, _actions_this_minute,
                    window_age, _last_reset_date, today, envVars, dbVars,
                    budget >>

\* supabase.table("applications").insert(...)
InsertApplication_lost(apps, j) == apps

InsertApplication(apps, j) == [apps EXCEPT ![j] = @ + 1]

\* supabase.table("jobs").update({"status": "applied"})
MarkApplied_skipped(status, j) == status

MarkApplied(status, j) == [status EXCEPT ![j] = "applied"]

DbResults == {"ok", "insert_raises", "update_raises"}

\* lines 507-545: the wait for the confirmation and the bookkeeping.
\* confirmed: the confirmation showed before the timeout; d1, d2: what the
\* database does in the try branch and in the except branch
AwaitConfirmation(a, confirmed, d1, d2) ==
    LET j == attempt[a].job_id
        \* the confirmation showed before the timeout, on a page still open
        shown == Answer(a, confirmed, FALSE)
        \* the try branch got as far as its insert
        tried == shown /\ d1 # "insert_raises"
        apps1 == IF tried THEN InsertApplication(applications, j) ELSE applications
        done1 == shown /\ d1 = "ok"
        \* the except branch runs when anything in the try branch raised
        apps2 == IF done1 THEN apps1
                 ELSE IF d2 # "insert_raises" THEN InsertApplication(apps1, j)
                 ELSE apps1
        done2 == ~done1 /\ d2 = "ok"
    IN
    /\ attempt[a].pc = "confirm"
    /\ applications' = apps2
    /\ job_status' = IF done1 \/ done2 THEN MarkApplied(job_status, j) ELSE job_status
    /\ Set(a, LET r == [With(attempt[a], IF shown THEN {"screenshot"} ELSE {})
                          EXCEPT !.inserted = @ + (apps2[j] - applications[j])]
              IN IF done1 THEN Ret(r, Outcome("success", "submitted"))
                 ELSE IF done2 THEN Ret(r, Outcome("warning", "verify_timeout"))
                 ELSE Ret(r, Error("exception")))
    /\ UNCHANGED << sessionVars, pages, _stop_requested, rateVars, today,
                    envVars, question_bank, budget >>

\* lines 547-556: the snapshot before filling, _fill_modal_fields, the dry-run
\* return and the query for Next/Review.
\* form: the fields the step shows; qb_ok: the bank read succeeds;
\* next: a Next/Review button is there
FillStep(a, form, qb_ok, next) ==
    /\ attempt[a].pc = "fill"
    /\ Set(a, IF ~Answer(a, qb_ok, FALSE) THEN
                  Ret([attempt[a] EXCEPT
                          !.current_state_before =
                              Answer(a, _extract_form_state(form), << >>)],
                      Error("exception"))
              ELSE
                LET res == _fill_modal_fields(form, PROFILE, question_bank,
                                              ENCRYPTION_KEY)
                    r == [With(attempt[a],
                               IF res.filled # {} THEN {"fill"} ELSE {})
                            EXCEPT !.current_state_before = _extract_form_state(form),
                                   !.qb_read = TRUE,
                                   !.qb_first = IF attempt[a].qb_read THEN @
                                                ELSE question_bank,
                                   !.skipped_fields = res.skipped,
                                   !.filled = res.filled,
                                   !.form = res.form]
                IN IF StopAfterFill(attempt[a].dry_run)
                   THEN Ret(r, Outcome("success", "dry_run_filled"))
                   ELSE IF next THEN [r EXCEPT !.pc = "next"]
                   ELSE Ret(r, FinishedKnown))
    /\ UNCHANGED << sessionVars, pages, _stop_requested, rateVars, today,
                    envVars, dbVars, budget >>

\* lines 557-567: the click on Next/Review and the query for inline errors.
\* seen: "no_errors", "errors", "raise"
ClickNext(a, seen) ==
    /\ attempt[a].pc = "next"
    /\ seen = "errors" => attempt[a].waits < MaxHumanWaits
    /\ Set(a, CASE Answer(a, seen, "raise") = "no_errors" ->
                     [With(attempt[a], {"click_next"}) EXCEPT !.pc = "loop"]
                [] Answer(a, seen, "raise") = "errors" ->
                     [With(attempt[a], {"click_next"}) EXCEPT
                         !.pc = "human", !.waited = 0, !.waits = @ + 1]
                [] OTHER -> Ret(attempt[a], Error("exception")))
    /\ UNCHANGED << sessionVars, pages, _stop_requested, rateVars, today,
                    envVars, dbVars, budget >>

\* lines 568 and 583: the wait for the person is used up
TimedOut_late(waited) == waited >= HUMAN_WAIT + POLL_SLEEP

TimedOut(waited) == waited >= HUMAN_WAIT

\* lines 568-586: one round of the wait for the person.
\* edits: what the person typed since the last round; gone: the form is no
\* longer on the page (the snapshot is empty); resolved: the error indicator
\* is gone; failing: the labels whose upsert raises
PollHuman(a, edits, gone, resolved, failing) ==
    LET form2 == ApplyEdits(attempt[a].form, edits)
        temp_state == IF gone THEN << >> ELSE _extract_form_state(form2)
        r == IF temp_state # << >>
             THEN [attempt[a] EXCEPT !.form = form2,
                                     !.current_state_after = temp_state,
                                     !.after_bound = TRUE]
             ELSE [attempt[a] EXCEPT !.form = form2]
    IN
    /\ attempt[a].pc = "human"
    /\ IF ~Alive(a) THEN \* the snapshot query raises on a closed page
            /\ Set(a, Ret(attempt[a], Error("exception")))
            /\ UNCHANGED question_bank
       ELSE IF resolved THEN
            IF r.after_bound THEN
                 /\ question_bank' =
                        _learn_new_answers(r.current_state_before,
                                           r.current_state_after, question_bank,
                                           ENCRYPTION_KEY, failing)
                 /\ Set(a, [With(r, {"learn"}) EXCEPT !.pc = "loop"])
            ELSE \* current_state_after was never assigned: UnboundLocalError
                 /\ Set(a, Ret(r, Error("exception")))
                 /\ UNCHANGED question_bank
       ELSE /\ UNCHANGED question_bank
            /\ Set(a, IF TimedOut(r.waited + POLL_SLEEP)
                      THEN Ret([r EXCEPT !.waited = @ + POLL_SLEEP],
                               Error("human_timeout"))
                      ELSE [r EXCEPT !.waited = @ + POLL_SLEEP])
    /\ UNCHANGED << sessionVars, pages, _stop_requested, rateVars, today,
                    envVars, applications, job_status, budget >>

(***************************************************************************)
(* Specifications                                                          *)
(***************************************************************************)
Quiet == \A a \in Attempts : attempt[a].pc = "idle"

Sleeping == \E a \in Attempts : attempt[a].pc = "rl_sleep"

\* Spec: one caller and the session.  Every answer of the browser, the site
\* and the database is explored; the site shows no validation error; the
\* session is stopped at any moment, and launched and its tabs closed while
\* no attempt is in flight.
Init == InitWith("valid", MaxInvocations)

Next ==
    \/ \E j \in JobIds, d \in BOOLEAN, fetch \in {"ok", "missing", "raise"} :
           Invoke(1, j, d, fetch)
    \/ \E ok \in BOOLEAN : AcquirePage(1, ok)
    \/ \E result \in {"already", "ok", "nav_failed", "raise"} : Navigate(1, result)
    \/ \E found \in {"button", "modal_open", "nothing", "raise"} :
           FindEasyApply(1, found)
    \/ LoopTop(1)
    \/ \E seen \in {"no_modal", "submit", "fields", "raise"} : DetectStep(1, seen)
    \/ \E ok \in BOOLEAN : SubmitClick(1, ok)
    \/ \E confirmed \in BOOLEAN, d1 \in DbResults, d2 \in DbResults :
           AwaitConfirmation(1, confirmed, d1, d2)
    \/ \E form \in {<< >>, F_CITY}, qb_ok \in BOOLEAN, next \in BOOLEAN :
           FillStep(1, form, qb_ok, next)
    \/ \E seen \in {"no_errors", "raise"} : ClickNext(1, seen)
    \/ (Quiet /\ LaunchBegin(1))
    \/ LaunchContext(1)
    \/ LaunchPage(1, TRUE)
    \/ stop_linkedin_browser
    \/ StopClosed
    \/ StopStopped
    \/ request_stop
    \/ (Quiet /\ ClosePage)

Spec == Init /\ [][Next]_vars

\* SpecDaily: two callers whose invocations may overlap, calling while the
\* session is up, all on one day.  The job is the LinkedIn job, every form
\* is the final step, the browser and the database answer without error.
InitDaily == InitWith("valid", MaxDailyRuns)

NextDaily ==
    \/ \E a \in Attempts :
          \/ (_browser_context # 0 /\ Invoke(a, "j_linkedin", FALSE, "ok"))
          \/ AcquirePage(a, TRUE)
          \/ RateWake(a)
          \/ Navigate(a, "ok")
          \/ FindEasyApply(a, "button")
          \/ LoopTop(a)
          \/ DetectStep(a, "submit")
          \/ SubmitClick(a, TRUE)
          \/ AwaitConfirmation(a, TRUE, "ok", "ok")
    \/ (Quiet /\ LaunchBegin(1))
    \/ LaunchContext(1)
    \/ LaunchPage(1, TRUE)
    \/ (Quiet /\ ClosePage)
    \/ (Sleeping /\ Tick(WINDOW))

SpecDaily == InitDaily /\ [][NextDaily]_vars

\* SpecDays: one caller over several days, real and dry runs on the LinkedIn
\* job.  A step shows the submit control, fields to fill, or nothing.
InitDays == InitWith("valid", MaxDayRuns)

NextDays ==
    \/ \E d \in BOOLEAN : Invoke(1, "j_linkedin", d, "ok")
    \/ AcquirePage(1, TRUE)
    \/ Navigate(1, "ok")
    \/ \E found \in {"button", "nothing"} : FindEasyApply(1, found)
    \/ LoopTop(1)
    \/ \E seen \in {"no_modal", "submit", "fields"} : DetectStep(1, seen)
    \/ \E ok \in BOOLEAN : SubmitClick(1, ok)
    \/ \E confirmed \in BOOLEAN : AwaitConfirmation(1, confirmed, "ok", "ok")
    \/ \E form \in {<< >>, F_CITY} : FillStep(1, form, TRUE, FALSE)
    \/ (Quiet /\ LaunchBegin(1))
    \/ LaunchContext(1)
    \/ LaunchPage(1, TRUE)
    \/ (Quiet /\ ClosePage)
    \/ DayRollover

SpecDays == InitDays /\ [][NextDays]_vars

\* SpecStop: two callers whose invocations may overlap, and a person who
\* asks to stop.  The job is the LinkedIn job; a step shows fields and a
\* Next button, or the modal is gone; the browser answers without error.
InitStop == InitWith("valid", MaxStopRuns)

NextStop ==
    \/ \E a \in Attempts :
          \/ (_browser_context # 0 /\ Invoke(a, "j_linkedin", FALSE, "ok"))
          \/ RateWake(a)
          \/ Navigate(a, "ok")
          \/ FindEasyApply(a, "button")
          \/ LoopTop(a)
          \/ \E seen \in {"no_modal", "fields"} : DetectStep(a, seen)
          \/ FillStep(a, << >>, TRUE, TRUE)
          \/ ClickNext(a, "no_errors")
    \/ (Quiet /\ LaunchBegin(1))
    \/ LaunchContext(1)
    \/ LaunchPage(1, TRUE)
    \/ request_stop
    \/ (Sleeping /\ Tick(WINDOW))

SpecStop == InitStop /\ [][NextStop]_vars

\* SpecRate: _rate_limit_check called directly, again and again, while the
\* clock advances in ticks of WINDOW \div RateSlots seconds.  probe keeps,
\* per age in ticks, how many calls were admitted that long ago, and in
\* since_wake how many calls were admitted after the one that last slept
\* (MAX_PER_MINUTE: that many or more, or no call has slept).
RateTick == WINDOW \div RateSlots

NoneAdmitted == [k \in 1..RateSlots |-> 0]

RateProbe(op, admitted, sleep_left) ==
    [op |-> op, admitted |-> admitted, sleep_left |-> sleep_left,
     since_wake |-> MAX_PER_MINUTE]

\* one more call admitted now
Admit(admitted) == [admitted EXCEPT ![1] = @ + 1]

\* a tick later: every admission is one tick older, and those of a full
\* window ago are forgotten
Aged(admitted) ==
    [k \in 1..RateSlots |-> IF k = 1 THEN 0 ELSE admitted[k - 1]]

RECURSIVE SumTo(_, _)
SumTo(admitted, k) == IF k = 0 THEN 0 ELSE admitted[k] + SumTo(admitted, k - 1)

\* the calls admitted less than WINDOW seconds ago
AdmittedInWindow == SumTo(probe.admitted, RateSlots)

InitRate ==
    InitState("valid", 0, << >>, RateProbe("rate", NoneAdmitted, 0))

\* lines 99-118 and 121-125: the check up to its sleep or its end
RateCall ==
    /\ probe.op = "rate"
    /\ RateCheckEffect
    /\ probe' = CASE RateVerdict = "pass" ->
                       [RateProbe("rate", Admit(probe.admitted), 0) EXCEPT
                           !.since_wake = Min(probe.since_wake + 1, MAX_PER_MINUTE)]
                  [] RateVerdict = "sleep" ->
                       [RateProbe("rate_sleep", probe.admitted, WINDOW - window_age)
                           EXCEPT !.since_wake = probe.since_wake]
                  [] OTHER -> probe
    /\ UNCHANGED << sessionVars, pages, _stop_requested, today, ENCRYPTION_KEY,
                    dbVars, attempt, budget >>

\* lines 119-125: the sleep is over; the window restarts and the call is
\* admitted
RateResume ==
    /\ probe.op = "rate_sleep"
    /\ probe.sleep_left = 0
    /\ RateWakeEffect
    /\ probe' = [RateProbe("rate", Admit(probe.admitted), 0) EXCEPT
                    !.since_wake = 0]
    /\ UNCHANGED << sessionVars, pages, _stop_requested, today, ENCRYPTION_KEY,
                    dbVars, attempt, budget >>

\* time.time() is one tick later
RateClock ==
    /\ window_age' = Min(window_age + RateTick, WINDOW)
    /\ probe' = [RateProbe(probe.op, Aged(probe.admitted),
                           Max(0, probe.sleep_left - RateTick))
                    EXCEPT !.since_wake = probe.since_wake]
    /\ UNCHANGED << sessionVars, pages, _stop_requested, _actions_this_minute,
                    _applies_today, _last_reset_date, today, ENCRYPTION_KEY,
                    dbVars, attempt, budget >>

NextRate == RateCall \/ RateResume \/ RateClock

SpecRate == InitRate /\ [][NextRate]_vars

\* SpecResolve: find_answer called on each label of a list, for every
\* profile of Profiles and bank of ResolveBanks.
ResolveCall(profile, labels) ==
    [op |-> "resolve", profile |-> profile, labels |-> labels, result |-> << >>]

InitResolve ==
    \E profile \in Profiles, bank \in ResolveBanks,
       labels \in SeqsUpTo(ResolveLabels, MaxLabels) :
        InitState("valid", 0, bank, ResolveCall(profile, labels))

ResolveProbe ==
    /\ probe.op = "resolve"
    /\ probe' = [probe EXCEPT
                    !.op = "resolved",
                    !.result = [i \in 1..Len(probe.labels) |->
                                   find_answer(probe.labels[i], probe.profile,
                                               question_bank, ENCRYPTION_KEY).ans]]
    /\ UNCHANGED << sessionVars, pages, _stop_requested, rateVars, today,
                    ENCRYPTION_KEY, dbVars, attempt, budget >>

SpecResolve == InitResolve /\ [][ResolveProbe]_vars

\* SpecExp: find_answer called on each label of a list with an empty bank,
\* for profiles whose work_experience lists up to MaxJobs entries in any
\* order, some without a usable start_date.
StartYears == {0, CURRENT_YEAR - 11, CURRENT_YEAR - 7}

ExpProfiles ==
    { [PROFILE EXCEPT !.work_experience = w, !.skills = k] :
        w \in SeqsUpTo(StartYears, MaxJobs), k \in {0, 6} }

InitExp ==
    \E profile \in ExpProfiles, labels \in SeqsUpTo({L_YEARS, L_CITY}, MaxJobs) :
        InitState("valid", 0, << >>, ResolveCall(profile, labels))

SpecExp == InitExp /\ [][ResolveProbe]_vars

\* SpecBank: find_answer called on each label of a list, for the profile
\* PROFILE and every bank of BankBanks.
InitBank ==
    \E bank \in BankBanks, labels \in SeqsUpTo(BankLabels, MaxBankLabels) :
        InitState("valid", 0, bank, ResolveCall(PROFILE, labels))

SpecBank == InitBank /\ [][ResolveProbe]_vars

\* SpecSecret: find_answer called on each label of a list, over every bank
\* _learn_new_answers leaves behind when a person has typed answers into a
\* form whose fields were blank.
L_PAY == <<"Expected", " ", "pay">>

SecretLabels == {L_PAY, L_SALARY, L_CITY}

\* what the person typed into each field
SecretAnswers ==
    { [label |-> L_PAY, val |-> <<"90k">>], [label |-> L_SALARY, val |-> <<"80k">>],
      [label |-> L_CITY, val |-> <<"Bonn">>] }

SecretSnapshots ==
    { st \in SeqsUpTo(SecretAnswers, MaxEntries) :
        \A i \in 1..Len(st), j \in 1..Len(st) : st[i].label = st[j].label => i = j }

InitSecret ==
    \E after \in SecretSnapshots, labels \in SeqsUpTo(SecretLabels, MaxBankLabels) :
        InitState("valid", 0,
                  _learn_new_answers(<< >>, after, << >>, "valid", {}),
                  ResolveCall(PROFILE, labels))

SpecSecret == InitSecret /\ [][ResolveProbe]_vars

\* SpecWait: one caller on the LinkedIn job, with a site that may show
\* validation errors after Next and a person who may correct the form.
InitWait == InitWith("valid", MaxWaitRuns)

AttemptStepWait ==
    \/ \E fetch \in {"ok", "raise"} :
           (_browser_context # 0 /\ Invoke(1, "j_linkedin", FALSE, fetch))
    \/ RateWake(1)
    \/ Navigate(1, "ok")
    \/ FindEasyApply(1, "button")
    \/ LoopTop(1)
    \/ \E seen \in {"no_modal", "fields"} : DetectStep(1, seen)
    \/ FillStep(1, F_CITY, TRUE, TRUE)
    \/ \E seen \in {"no_errors", "errors"} : ClickNext(1, seen)
    \/ \E edits \in HumanEdits(attempt[1].form), gone \in BOOLEAN,
          resolved \in BOOLEAN :
           PollHuman(1, edits, gone, resolved, {})

NextWait ==
    \/ AttemptStepWait
    \/ (Quiet /\ LaunchBegin(1))
    \/ LaunchContext(1)
    \/ LaunchPage(1, TRUE)
    \/ (Sleeping /\ Tick(WINDOW))

SpecWait == InitWait /\ [][NextWait]_vars

\* SpecSteps: one caller on the LinkedIn job, in normal mode or as a dry
\* run, on a modal of several steps whose forms may hold a sensitive
\* question; the browser and the database answer without error, the caller
\* may ask for a stop.
F_SALARY == << Field("text", L_SALARY, << >>) >>

InitSteps == InitWith("valid", MaxStepRuns)

AttemptStepSteps ==
    \/ \E d \in BOOLEAN :
           (_browser_context # 0 /\ Invoke(1, "j_linkedin", d, "ok"))
    \/ RateWake(1)
    \/ Navigate(1, "ok")
    \/ FindEasyApply(1, "button")
    \/ LoopTop(1)
    \/ \E seen \in {"no_modal", "submit", "fields"} : DetectStep(1, seen)
    \/ SubmitClick(1, TRUE)
    \/ \E confirmed \in BOOLEAN : AwaitConfirmation(1, confirmed, "ok", "ok")
    \/ \E form \in {F_CITY, F_SALARY}, next \in BOOLEAN :
           FillStep(1, form, TRUE, next)
    \/ ClickNext(1, "no_errors")

NextSteps ==
    \/ AttemptStepSteps
    \/ (Quiet /\ LaunchBegin(1))
    \/ LaunchContext(1)
    \/ LaunchPage(1, TRUE)
    \/ request_stop
    \/ (Sleeping /\ Tick(WINDOW))

SpecSteps == InitSteps /\ [][NextSteps]_vars

\* SpecHuman: one caller on the LinkedIn job whose steps show a phone and a
\* city field; the engine knows the phone, the site may show validation
\* errors after Next, and a person may type into the fields left blank.
F_PHONE_CITY == << Field("text", L_PHONE, << >>), Field("text", L_CITY, << >>) >>

InitHuman == InitWith("valid", MaxHumanRuns)

AttemptStepHuman ==
    \/ (_browser_context # 0 /\ Invoke(1, "j_linkedin", FALSE, "ok"))
    \/ Navigate(1, "ok")
    \/ FindEasyApply(1, "button")
    \/ LoopTop(1)
    \/ \E seen \in {"no_modal", "fields"} : DetectStep(1, seen)
    \/ FillStep(1, F_PHONE_CITY, TRUE, TRUE)
    \/ \E seen \in {"no_errors", "errors"} : ClickNext(1, seen)
    \/ \E edits \in HumanEdits(attempt[1].form), gone \in BOOLEAN,
          resolved \in BOOLEAN :
           PollHuman(1, edits, gone, resolved, {})

NextHuman ==
    \/ AttemptStepHuman
    \/ (Quiet /\ LaunchBegin(1))
    \/ LaunchContext(1)
    \/ LaunchPage(1, TRUE)

SpecHuman == InitHuman /\ [][NextHuman]_vars

\* SpecSession: the session alone.  Two launch requests and a stop request
\* may be in flight together, as the handlers of main.py await the coroutines
\* without a lock; launch_persistent_context may fail.
InitSession == InitWith("valid", 0)

NextSession ==
    \/ \E l \in Launchers :
          \/ LaunchBegin(l)
          \/ LaunchContext(l)
          \/ \E ok \in BOOLEAN : LaunchPage(l, ok)
    \/ stop_linkedin_browser
    \/ StopClosed
    \/ StopStopped
    \/ request_stop
    \/ ClosePage

SpecSession == InitSession /\ [][NextSession]_vars

\* SpecFill: _fill_modal_fields called on every form of FillForms with every
\* bank of FillBanks.
FillCall(form) == [NoProbe EXCEPT !.op = "fill", !.form = form]

InitFill ==
    \E form \in FillForms, bank \in FillBanks :
        InitState("valid", 0, bank, FillCall(form))

FillProbe ==
    /\ probe.op = "fill"
    /\ probe' = [probe EXCEPT
                    !.op = "filled",
                    !.skipped = _fill_modal_fields(probe.form, PROFILE, question_bank,
                                                   ENCRYPTION_KEY).skipped,
                    !.filled = _fill_modal_fields(probe.form, PROFILE, question_bank,
                                                  ENCRYPTION_KEY).filled,
                    !.result = _fill_modal_fields(probe.form, PROFILE, question_bank,
                                                  ENCRYPTION_KEY).form]
    /\ UNCHANGED << sessionVars, pages, _stop_requested, rateVars, today,
                    ENCRYPTION_KEY, dbVars, attempt, budget >>

SpecFill == InitFill /\ [][FillProbe]_vars

\* SpecLearn: _learn_new_answers called on every pair of snapshots, with and
\* without a usable encryption key.
LearnCall(before, after) ==
    [NoProbe EXCEPT !.op = "learn", !.before = before, !.after = after]

InitLearn ==
    \E key \in {"valid", "invalid", "missing"}, bank \in LearnBanks,
       before \in Snapshots, after \in Snapshots :
        InitState(key, 0, bank, LearnCall(before, after))

\* failing: the labels whose upsert raises
LearnProbe(failing) ==
    /\ probe.op = "learn"
    /\ probe' = [probe EXCEPT !.op = "learned"]
    /\ question_bank' = _learn_new_answers(probe.before, probe.after, question_bank,
                                           ENCRYPTION_KEY, failing)
    /\ UNCHANGED << sessionVars, pages, _stop_requested, rateVars, today,
                    ENCRYPTION_KEY, applications, job_status, attempt, budget >>

NextLearn == \E failing \in SUBSET {L_CITY} : LearnProbe(failing)

SpecLearn == InitLearn /\ [][NextLearn]_vars

(***************************************************************************)
(* Properties                                                              *)
(***************************************************************************)
\* the steps of attempt a
StepOf(a) == attempt'[a] # attempt[a]

\* C1 (as claimed): in every reachable state the daily submission counter
\* is at most the ceiling of 50, also when invocations overlap.
C1_CounterWithinCeiling == _applies_today <= MAX_DAILY

\* C2 (as claimed): an invocation made when 50 submissions are counted for
\* the day performs no browser action (page creation included) and ends
\* with an error outcome.
C2_NoBrowserActionAtCeiling ==
    \A a \in Attempts :
        attempt[a].at_ceiling =>
            /\ attempt[a].trace \cap BrowserActions = {}
            /\ (attempt[a].pc = "idle" => attempt[a].outcome.status = "error")

\* C3 (as claimed): _fill_modal_fields leaves a field whose label contains
\* a sensitive keyword as it was, and where the resolver is asked for such
\* a label it returns None and the label is reported skipped, whatever the
\* question bank holds.
C3_SensitiveNeverFilled ==
    probe.op = "filled" =>
        \A i \in 1..Len(probe.form) :
            AnySensitiveKeyword(lower(probe.form[i].label)) =>
                /\ probe.result[i] = probe.form[i]
                /\ probe.form[i].kind # "checkbox" =>
                      /\ find_answer(probe.form[i].label, PROFILE, question_bank,
                                     ENCRYPTION_KEY).ans = None
                      /\ probe.form[i].label \in probe.skipped

\* C4 (as claimed): every question-bank entry of category sensitive that
\* _learn_new_answers leaves in the bank has marker-prefixed answer text.
C4_SensitiveIsCiphertext ==
    probe.op = "learned" =>
        \A i \in 1..Len(question_bank) :
            question_bank[i].category = "sensitive" =>
                startswith_marker(question_bank[i].answer_text)

\* C5 (as claimed): no step of a dry-run attempt clicks the submit control
\* or changes the daily counter.
C5_DryRunLeavesCounter ==
    [][ \A a \in Attempts :
          (StepOf(a) /\ attempt'[a].dry_run) =>
              /\ _applies_today' = _applies_today
              /\ "click_submit" \notin attempt'[a].trace ]_vars

\* C5 (amended): no step of a dry-run attempt clicks the submit control or
\* increases the daily counter.
C5_DryRunNeverCounts ==
    [][ \A a \in Attempts :
          (StepOf(a) /\ attempt'[a].dry_run) =>
              /\ _applies_today' <= _applies_today
              /\ "click_submit" \notin attempt'[a].trace ]_vars

\* C5 witness: a dry run has stopped at the submit control on a day with a
\* counted submission.
C5_DryRunAtSubmit ==
    /\ attempt[1].pc = "idle"
    /\ attempt[1].dry_run
    /\ attempt[1].outcome = Outcome("success", "dry_run_submit")
    /\ _applies_today >= 1
    /\ _last_reset_date = today

\* C6 (as claimed): an attempt that returned status success has persisted
\* an application record for its job.
C6_SuccessImpliesRecord ==
    \A a \in Attempts :
        (attempt[a].pc = "idle" /\ attempt[a].outcome.status = "success") =>
            /\ attempt[a].inserted >= 1
            /\ applications[attempt[a].job_id] >= 1

\* C6 (amended): an attempt that returned success for a submitted
\* application has persisted an application record for its job and set the
\* job's status to applied.
C6_SubmittedImpliesRecord ==
    \A a \in Attempts :
        (attempt[a].pc = "idle"
            /\ attempt[a].outcome = Outcome("success", "submitted")) =>
            /\ attempt[a].inserted >= 1
            /\ applications[attempt[a].job_id] >= 1
            /\ job_status[attempt[a].job_id] = "applied"

\* C6 witness: an attempt has clicked submit, seen the confirmation and
\* returned success.
C6_Submitted ==
    /\ attempt[1].pc = "idle"
    /\ attempt[1].outcome = Outcome("success", "submitted")
    /\ "click_submit" \in attempt[1].trace
    /\ ~attempt[1].dry_run

\* C7 (as claimed): at most one attempt is in flight at any time.
C7_OneAttemptInFlight == Cardinality({a \in Attempts : InFlight(a)}) <= 1

\* C8 (as claimed): for a job whose URL host is not a LinkedIn domain there
\* is no navigation, no Apply click and no field fill, and the outcome the
\* attempt returns is an error.
C8_ForeignHostNeverAttempted ==
    \A a \in Attempts :
        (attempt[a].job_id # "none" /\ ~HostIsLinkedIn(attempt[a].job_id)) =>
            /\ attempt[a].trace \cap {"goto", "click_apply", "fill"} = {}
            /\ (attempt[a].pc = "idle"
                  /\ attempt[a].outcome.status \notin {"none", "raised"}
                  => attempt[a].outcome.status = "error")

\* C9 (as claimed): an attempt rejected by the domain guard has taken or
\* created no page of the browser context and has made no rate-governed
\* action.
C9_GuardBeforeSession ==
    \A a \in Attempts :
        attempt[a].outcome = Error("not_linkedin") =>
            attempt[a].trace \cap {"get_page", "new_page", "rate_check"} = {}

\* C10 (as claimed): no invocation ends with an exception raised to its
\* caller.
C10_NoExceptionEscapes ==
    \A a \in Attempts : attempt[a].outcome.status # "raised"

\* the outcome line 594 returns when _check_stop raised InterruptedError
Cancelled == Outcome("warning", "stopped")

\* C12 (as claimed): the outcome of a cancelled attempt carries a status
\* that is none of success, warning and error, so that a caller can tell
\* cancellation from a confirmation timeout and from a failure.
C12_CancelledStatusDistinct ==
    \A a \in Attempts :
        attempt[a].outcome.message = Cancelled.message =>
            attempt[a].outcome.status \notin {"success", "warning", "error"}

\* a step of stop_linkedin_browser after which the coroutine has returned
StopReturns ==
    /\ stop_linkedin_browser \/ StopClosed \/ StopStopped
    /\ spc' = "idle"

\* C13 (as claimed): at most one browser context and at most one automation
\* driver is live, whatever launch and stop calls were made.
C13_AtMostOneSession ==
    /\ Cardinality(live_contexts) <= 1
    /\ Cardinality(live_drivers) <= 1

\* C14 (as claimed): when stop returns, no browser context and no driver is
\* live and the stop flag is set.
C14_StopLeavesNothing ==
    [][StopReturns =>
          /\ live_contexts' = {}
          /\ live_drivers' = {}
          /\ _stop_requested']_vars

\* C11 (as claimed): an attempt for which the stop flag was set while it
\* was in flight, and which then comes to the top of a loop iteration, ends
\* there with the cancelled outcome and performs no browser action.
C11_StopObservedAtLoopTop ==
    [][\A a \in Attempts :
          (/\ attempt[a].pc = "loop"
           /\ attempt[a].stop_set
           /\ attempt[a].current_step < max_steps
           /\ attempt'[a] # attempt[a])
          => /\ attempt'[a].outcome = Cancelled
             /\ attempt'[a].trace = attempt[a].trace]_vars

\* C15 (as claimed): no interval of WINDOW seconds contains more than
\* MAX_PER_MINUTE admitted rate-checked actions.
C15_TwelvePerWindow == AdmittedInWindow <= MAX_PER_MINUTE

\* C15, the check itself: a rate check that finds MAX_PER_MINUTE actions
\* admitted within the preceding WINDOW seconds sleeps.
C15_ThirteenthSleeps ==
    [][RateCall /\ AdmittedInWindow >= MAX_PER_MINUTE
          => probe'.op = "rate_sleep"]_vars

\* the labels C16 speaks of: not sensitive, no profile mapping, not the
\* years-of-experience question
FuzzyOnly(label_text) ==
    /\ label_text # << >>
    /\ ~Vetoed(label_text)
    /\ Falsy(_map_label_to_value(label_text, PROFILE))
    /\ ExperienceFallback(None, label_text, PROFILE) = None

\* C16 (as claimed): for such a label and a bank that is not empty, the
\* resolver returns the answer stored with the best-matching question if
\* and only if the score of that match is at least FUZZY_THRESHOLD.
C16_AcceptedFromEighty ==
    probe.op = "filled" /\ question_bank # << >> =>
        \A i \in 1..Len(probe.form) :
            FuzzyOnly(probe.form[i].label) =>
                IF BestScore(probe.form[i].label, question_bank) >= FUZZY_THRESHOLD
                THEN find_answer(probe.form[i].label, PROFILE, question_bank,
                                 ENCRYPTION_KEY).ans
                       = DecryptAnswer(BestAnswer(probe.form[i].label, question_bank),
                                       ENCRYPTION_KEY)
                ELSE find_answer(probe.form[i].label, PROFILE, question_bank,
                                 ENCRYPTION_KEY).ans = None

\* the last of the space-separated words of a text, as the claim reads it
RECURSIVE LastWord(_)
LastWord(s) ==
    IF s = << >> THEN << >>
    ELSE IF s[Len(s)] = " " THEN LastWord(SubSeq(s, 1, Len(s) - 1))
    ELSE LastToken(s)

IsFirstNameLabel(label) == Contains(lower(label), <<"first", " ", "name">>)
IsLastNameLabel(label) == Contains(lower(label), <<"last", " ", "name">>)
IsPhoneLabel(label) ==
    Contains(lower(label), <<"phone">>) \/ Contains(lower(label), <<"mobile">>)

FromBankOrEmpty(label, bank) ==
    IF bank # << >> /\ AcceptScore(BestScore(label, bank))
    THEN BestAnswer(label, bank) ELSE << >>

SameDict(before, after) ==
    {before[i] : i \in 1..Len(before)} = {after[i] : i \in 1..Len(after)}

\* C18: _learn_new_answers called with a snapshot `after` that equals
\* `before` leaves the question bank as it was: nothing is upserted.
C18_NoChangeNoUpsert ==
    [][(probe.op = "learn" /\ SameDict(probe.before, probe.after))
          => question_bank' = question_bank]_vars

\* C18: _learn_new_answers has returned from a call with equal snapshots
\* that hold a value a person typed.
C18_LearnedFromEqualSnapshots ==
    /\ probe.op = "learned"
    /\ SameDict(probe.before, probe.after)
    /\ \E i \in 1..Len(probe.after) : probe.after[i].val # << >>

\* the outcome line 545 returns
VerifyTimeout == Outcome("warning", "verify_timeout")

\* what C20 says of an attempt that clicked Submit and saw no confirmation:
\* one application row more for its job, the job marked applied, and the
\* warning outcome
PresumedApplied(a) ==
    /\ applications'[attempt[a].job_id] = applications[attempt[a].job_id] + 1
    /\ job_status'[attempt[a].job_id] = "applied"
    /\ attempt'[a].outcome = VerifyTimeout

C19_EndsWithOutcomeWithinBounds ==
    \A a \in Attempts :
        /\ attempt[a].current_step <= max_steps
        /\ attempt[a].waited <= HUMAN_WAIT
        /\ (~InFlight(a) /\ attempt[a].outcome # NoOutcome) =>
               attempt[a].outcome.status \in {"success", "warning", "error"}

\* C19, the bounds alone
C19_WithinBounds ==
    \A a \in Attempts :
        /\ attempt[a].current_step <= max_steps
        /\ attempt[a].waited <= HUMAN_WAIT

\* C19, termination: what an invocation in flight may still do, as a number
\* that every step of it lowers.  The loop counter weighs most, then the
\* position within the iteration, then the seconds left of the wait.
Rank(r) ==
    CASE r.pc = "idle" -> 0
      [] r.pc = "new_page" -> 99
      [] r.pc = "rl_sleep" -> IF r.resume = "entry" THEN 98 ELSE 80
      [] r.pc = "nav" -> 97
      [] r.pc = "find_apply" -> 96
      [] r.pc = "detect" -> 70
      [] r.pc \in {"fill", "submit"} -> 60
      [] r.pc \in {"next", "confirm"} -> 50
      [] r.pc = "human" -> 10 + (HUMAN_WAIT - r.waited) \div POLL_SLEEP
      [] OTHER -> 5

Remaining(r) ==
    IF r.pc = "idle" THEN 0 ELSE 100 * (max_steps - r.current_step) + Rank(r)

C19_EveryStepLowersRemaining ==
    [][\A a \in Attempts :
          (InFlight(a) /\ [attempt'[a] EXCEPT !.sleep_left = 0, !.stop_set = FALSE]
                          # [attempt[a] EXCEPT !.sleep_left = 0, !.stop_set = FALSE])
          => Remaining(attempt'[a]) < Remaining(attempt[a])]_vars

\* the outcome line 584 returns
HumanTimeout == Error("human_timeout")

\* C21: the round of the wait that uses up HUMAN_WAIT seconds with the
\* error indicator still on the open page ends the attempt with the timeout
\* error; that step learns nothing, writes no application row, marks no job
\* and leaves the daily counter, and the attempt has clicked no Submit.
C21_TimeoutFailsWithoutEffects ==
    [][\A a \in Attempts :
          \A edits \in HumanEdits(attempt[a].form), gone \in BOOLEAN :
              (/\ Alive(a)
               /\ attempt[a].waited + POLL_SLEEP >= HUMAN_WAIT
               /\ PollHuman(a, edits, gone, FALSE, {}))
              => /\ attempt'[a].outcome = HumanTimeout
                 /\ attempt'[a].trace = attempt[a].trace
                 /\ "click_submit" \notin attempt'[a].trace
                 /\ attempt'[a].inserted = 0
                 /\ question_bank' = question_bank
                 /\ applications' = applications
                 /\ job_status' = job_status
                 /\ _applies_today' = _applies_today]_vars

\* C21: an attempt has ended with the timeout error of the wait.
C21_TimedOutWaiting ==
    \E a \in Attempts :
        /\ ~InFlight(a)
        /\ attempt[a].outcome = HumanTimeout
        /\ "click_next" \in attempt[a].trace

\* C22 (as claimed): every step of an attempt is resolved against the
\* question bank as the attempt first read it: the form a step has filled
\* is the form that snapshot gives.
C22_OneBankSnapshotPerAttempt ==
    \A a \in Attempts :
        attempt[a].pc = "next" =>
            attempt[a].form =
                _fill_modal_fields(F_CITY, PROFILE, attempt[a].qb_first,
                                   ENCRYPTION_KEY).form

\* C23 (as claimed): after a learn operation the question bank holds at
\* most one entry per question text of the owner, and the entry of every
\* question the person corrected holds the answer of that correction (read
\* through decrypt_value where it was stored encrypted).
C23_LatestCorrectionWins ==
    probe.op = "learned" =>
        /\ \A i \in 1..Len(question_bank), j \in 1..Len(question_bank) :
              question_bank[i].question_text = question_bank[j].question_text
                  => i = j
        /\ \A k \in 1..Len(probe.after) :
              (/\ probe.after[k].val # << >>
               /\ probe.after[k].val # Get(probe.before, probe.after[k].label, << >>))
              => \E i \in 1..Len(question_bank) :
                    /\ question_bank[i].question_text = strip(probe.after[k].label)
                    /\ decrypt_value(question_bank[i].answer_text, ENCRYPTION_KEY)
                           = probe.after[k].val

\* C24 (as claimed): the outcome of an attempt that has ended tells the
\* caller the labels its last filled step passed over as sensitive, in
\* normal mode as in a dry run.
C24_OutcomeReportsSkipped ==
    \A a \in Attempts :
        (~InFlight(a) /\ attempt[a].outcome # NoOutcome)
            => attempt[a].skipped_fields \subseteq ReportedSkipped(attempt[a])

\* C25: a rate check made when fewer than MAX_PER_MINUTE calls were admitted
\* within the preceding WINDOW seconds is admitted at once, without a
\* sleep (so calls more than WINDOW seconds apart are never delayed); the
\* call that slept restarts the counter at its own admission, and none of
\* the next MAX_PER_MINUTE - 1 checks sleeps.
C25_SleepsOnlyWhenWindowFull ==
    [][RateCall =>
          /\ AdmittedInWindow < MAX_PER_MINUTE
                => /\ probe'.op = "rate"
                   /\ probe'.admitted = Admit(probe.admitted)
          /\ probe.since_wake < MAX_PER_MINUTE - 1 => probe'.op = "rate"
          /\ probe.since_wake = 0 => _actions_this_minute = 1]_vars

\* C25: a call has slept, and the next MAX_PER_MINUTE - 1 calls after it
\* have been admitted.
C25_ElevenAdmittedAfterSleep ==
    /\ probe.op = "rate"
    /\ probe.since_wake = MAX_PER_MINUTE - 1

\* C26 (as claimed): every visible browser action of an attempt has a rate
\* check of its own before it: an attempt never takes two visible actions
\* with no rate check between them.
C26_RateCheckBeforeEachAction ==
    \A a \in Attempts : attempt[a].since_check <= 1

\* the steps of attempt a in which _rate_limit_check runs: the entry of an
\* invocation that has its page, and the top of a loop iteration that is
\* neither past max_steps nor stopped
RateCheckStep(a) ==
    \/ \E d \in BOOLEAN :
          /\ _browser_context # 0
          /\ pages > 0
          /\ Invoke(a, "j_linkedin", d, "ok")
    \/ (Alive(a) /\ AcquirePage(a, TRUE))
    \/ (attempt[a].current_step < max_steps /\ ~_stop_requested /\ LoopTop(a))

\* C27: a rate check that finds the date changed sets the daily counter to 0
\* and the last reset date to the current date in the same step; a rate
\* check on the date of the last reset changes neither; and no step changes
\* the last reset date without setting the counter to 0.
C27_DailyResetAtomic ==
    [][/\ \A a \in Attempts :
             RateCheckStep(a) =>
                 IF today # _last_reset_date
                 THEN _applies_today' = 0 /\ _last_reset_date' = today
                 ELSE /\ _applies_today' = _applies_today
                      /\ _last_reset_date' = _last_reset_date
       /\ _last_reset_date' # _last_reset_date
             => _applies_today' = 0 /\ _last_reset_date' = today]_vars

\* C27: a counter that stood above 0 has been reset by the first rate check
\* of a later day.
C27_ResetAfterRollover ==
    /\ today > 1
    /\ _last_reset_date = today
    /\ _applies_today = 0
    /\ \E j \in JobIds : applications[j] > 0

\* C28: the step in which the click on Submit returns raises the daily
\* counter by exactly 1 and leaves the attempt before its wait for the
\* confirmation; the step that ends that wait leaves the counter alone,
\* whether or not the confirmation showed; and a step that raises the
\* counter raises it by 1 and is the submit click of an attempt.
C28_CountedAtSubmitClick ==
    [][/\ \A a \in Attempts :
             /\ (Alive(a) /\ SubmitClick(a, TRUE))
                   => /\ _applies_today' = _applies_today + 1
                      /\ attempt'[a].pc = "confirm"
             /\ (attempt[a].pc = "confirm" /\ StepOf(a))
                   => _applies_today' = _applies_today
       /\ _applies_today' > _applies_today
             => /\ _applies_today' = _applies_today + 1
                /\ \E a \in Attempts :
                      /\ attempt[a].pc = "submit"
                      /\ "click_submit" \in attempt'[a].trace]_vars

\* C28: a click on Submit is counted while its confirmation is still
\* awaited, on top of an earlier submission of the day.
C28_CountedBeforeConfirmation ==
    \E a \in Attempts :
        /\ attempt[a].pc = "confirm"
        /\ _applies_today > 1

\* C29: a step that inserts an application record or changes a job's status
\* is a step of an attempt that had clicked Submit before it; a step of an
\* attempt that has clicked no Submit, its last step included, leaves the
\* application records and the job statuses as they are.
C29_WritesOnlyAfterSubmitClick ==
    [][/\ (applications' # applications \/ job_status' # job_status)
             => \E a \in Attempts :
                   /\ StepOf(a)
                   /\ "click_submit" \in attempt[a].trace
       /\ \A a \in Attempts :
             (StepOf(a) /\ "click_submit" \notin attempt'[a].trace)
                 => /\ applications' = applications
                    /\ job_status' = job_status
                    /\ attempt'[a].inserted = 0]_vars

\* C29: an attempt that went past a step was cancelled before any click on
\* Submit, and no record and no job status has been written.
C29_CancelledWithoutWrites ==
    \E a \in Attempts :
        /\ attempt[a].outcome = Cancelled
        /\ "click_next" \in attempt[a].trace
        /\ "click_submit" \notin attempt[a].trace
        /\ \A j \in JobIds : applications[j] = 0 /\ job_status[j] = "scraped"

\* C30 (as claimed): a dry run that ends without an error, without a
\* cancellation and without finding the modal or its Next control missing
\* has ended at the step that shows the submit control.
C30_DryRunStopsOnlyAtSubmit ==
    \A a \in Attempts :
        (/\ ~InFlight(a)
         /\ attempt[a].dry_run
         /\ attempt[a].outcome.status = "success"
         /\ attempt[a].outcome # Outcome("success", "finished_known"))
            => attempt[a].outcome = Outcome("success", "dry_run_submit")

\* C31 (as claimed): the rows the learner writes when the person has
\* resolved the errors of a step are rows of questions the person
\* answered: no row is written for a field the engine itself filled in
\* that step.
C31_OnlyHumanAnswersLearned ==
    [][\A a \in Attempts :
          (attempt[a].pc = "human" /\ StepOf(a))
              => \A i \in 1..Len(question_bank') :
                    (\A k \in 1..Len(question_bank) :
                         question_bank[k] # question_bank'[i])
                        => \A l \in attempt[a].filled :
                               question_bank'[i].question_text # strip(l)]_vars

\* the snapshot holds the label
InDict(state, label) == \E i \in 1..Len(state) : state[i].label = label

\* bank2 holds a row for the label that bank did not hold
Written(label, bank, bank2) ==
    \E i \in 1..Len(bank2) :
        /\ bank2[i].question_text = strip(label)
        /\ \A k \in 1..Len(bank) : bank[k] # bank2[i]

\* C32 (as claimed): a call of the learner whose upserts all succeed writes
\* a row for a label if and only if the label is in both snapshots and its
\* value after is not empty and differs from its value before.
C32_LearnedIffInBothAndChanged ==
    [][LearnProbe({}) =>
          \A label \in LearnLabels :
              Written(label, question_bank, question_bank')
                  <=> /\ InDict(probe.before, label)
                      /\ InDict(probe.after, label)
                      /\ Get(probe.after, label, << >>) # << >>
                      /\ Get(probe.after, label, << >>)
                             # Get(probe.before, label, << >>)]_vars

\* C32 (amended): a call of the learner writes a row for a label if and
\* only if the label is in the after snapshot, its value there is not empty
\* and differs from its value before, a label the before snapshot lacks
\* counting as empty before, and the upsert of the row does not raise.
C32_LearnedIffChangedOrNew ==
    [][\A failing \in SUBSET LearnLabels :
          LearnProbe(failing) =>
              \A label \in LearnLabels :
                  Written(label, question_bank, question_bank')
                      <=> /\ label \notin failing
                          /\ InDict(probe.after, label)
                          /\ Get(probe.after, label, << >>) # << >>
                          /\ InDict(probe.before, label)
                                => Get(probe.after, label, << >>)
                                       # Get(probe.before, label, << >>)]_vars

\* C32: the learner has written the answer of a label that only the after
\* snapshot holds.
C32_NewLabelLearned ==
    /\ probe.op = "learned"
    /\ \E i \in 1..Len(probe.after) :
          /\ ~InDict(probe.before, probe.after[i].label)
          /\ probe.after[i].val # << >>
          /\ \E k \in 1..Len(question_bank) :
                question_bank[k].question_text = strip(probe.after[i].label)

\* the test of line 654 on a label
SensitiveLabel(label) ==
    Category(lower(label)) \in {"salary", "visa"} \/ AnySensitiveKeyword(lower(label))

\* C33 (as claimed): when the sensitive answers of a learn call cannot be
\* encrypted, the call writes no row for a sensitive label and still writes
\* the row of every other label whose value changed.
C33_FailedEncryptionSkipsOneField ==
    [][(LearnProbe({}) /\ ENCRYPTION_KEY # "valid") =>
          \A label \in LearnLabels :
              Written(label, question_bank, question_bank')
                  <=> /\ ~SensitiveLabel(label)
                      /\ Get(probe.after, label, << >>) # << >>
                      /\ Get(probe.after, label, << >>)
                             # Get(probe.before, label, << >>)]_vars

\* the rows of the bank whose question, lower-cased and without
\* punctuation, is the label so processed
ExactRows(label, bank) ==
    { k \in 1..Len(bank) :
        full_process(bank[k].question_text) = full_process(label) }

\* the labels C34 speaks of: not sensitive and without a profile mapping
BankOnly(label) ==
    /\ label # << >>
    /\ ~Vetoed(label)
    /\ Falsy(_map_label_to_value(label, probe.profile))

FirstExact(label, bank) ==
    CHOOSE k \in ExactRows(label, bank) : \A j \in ExactRows(label, bank) : k <= j

UsableYears(work_exp) == { work_exp[i] : i \in 1..Len(work_exp) } \ {0}

\* C35 (as claimed): with no profile or bank answer, the label that
\* mentions years and experience is answered with the years since the
\* earliest usable start date of work_experience, whatever the order of the
\* list, and with the skill-count heuristic only when no start date is
\* usable.
C35_YearsSinceEarliestStart ==
    probe.op = "resolved" =>
        \A i \in 1..Len(probe.labels) :
            probe.labels[i] = L_YEARS =>
                probe.result[i] =
                    IF UsableYears(probe.profile.work_experience) # {}
                    THEN Str(CURRENT_YEAR
                             - (CHOOSE y \in UsableYears(probe.profile.work_experience) :
                                  \A z \in UsableYears(probe.profile.work_experience) :
                                      y <= z))
                    ELSE Str(Max(1, probe.profile.skills \div 2))

\* C36: a step that shows fields but neither the submit control nor a
\* Next/Review control ends the attempt with status success, in normal mode
\* with the message that the remaining steps are left to the person; the
\* attempt has clicked no Submit, and that step writes no application
\* record, marks no job and leaves the daily counter.
C36_UnrecognizedStepIsSuccess ==
    [][\A a \in Attempts, form \in {F_CITY, F_SALARY} :
          (Alive(a) /\ FillStep(a, form, TRUE, FALSE))
              => /\ ~InFlight(a)'
                 /\ attempt'[a].outcome.status = "success"
                 /\ ~attempt[a].dry_run => attempt'[a].outcome = FinishedKnown
                 /\ "click_submit" \notin attempt'[a].trace
                 /\ attempt'[a].inserted = 0
                 /\ applications' = applications
                 /\ job_status' = job_status
                 /\ _applies_today' = _applies_today]_vars

\* C36: a normal-mode attempt has ended on its first step, which showed
\* the salary question and neither Next nor Submit.
C36_EndedOnUnrecognizedStep ==
    \E a \in Attempts :
        /\ ~InFlight(a)
        /\ ~attempt[a].dry_run
        /\ attempt[a].outcome = Outcome("success", "finished_known")
        /\ attempt[a].current_step = 1
        /\ attempt[a].skipped_fields = {L_SALARY}

\* C37 (as claimed): while an attempt for which the stop flag was set is
\* still in flight, no step clears the flag.
C37_StopFlagKeptForAttempt ==
    [][(/\ _stop_requested
        /\ \E a \in Attempts : InFlight(a) /\ attempt[a].stop_set)
          => _stop_requested']_vars

\* C38 (as claimed): an attempt writes at most one application record,
\* whatever the database does after the submit click.
C38_AtMostOneRecordPerAttempt ==
    \A a \in Attempts : attempt[a].inserted <= 1

\* C39 (as claimed): find_answer never returns, for any label, the answer of
\* a question-bank row of category `sensitive`, neither as stored nor
\* decrypted.
C39_SensitiveRowNeverFilled ==
    probe.op = "resolved" =>
        \A i \in 1..Len(probe.result), r \in 1..Len(question_bank) :
            question_bank[r].category = "sensitive" =>
                probe.result[i] \notin
                    { question_bank[r].answer_text,
                      decrypt_value(question_bank[r].answer_text, ENCRYPTION_KEY) }

\* C40 (as claimed): when the error indicator goes away during a human wait
\* on an open page, the after-snapshot handed to the learner was assigned
\* during this wait: the attempt does not fail on an unassigned
\* current_state_after.
C40_AfterSnapshotAssigned ==
    [][\A a \in Attempts :
          (attempt[a].pc = "human" /\ StepOf(a) /\ Alive(a))
              => attempt'[a].outcome # Error("exception")]_vars

====
